---- MODULE Spec2Model ----
(***************************************************************************)
(* Block cipher "Magma" (RFC 8891 / GOST R 34.12-2015) and its buffer      *)
(* modes ECB, CTR, CFB and MAC (GOST R 34.13-2015).                        *)
(*                                                                         *)
(* Representation of machine integers.  TLC integers are 32-bit signed,    *)
(* so a u32 is kept as its 8 hexadecimal digits and a u64 as its 16        *)
(* hexadecimal digits, least significant digit first (digit i holds bits   *)
(* 4(i-1) .. 4(i-1)+3).  A byte (u8) is an integer 0..255, a buffer a      *)
(* sequence of bytes.  All arithmetic keeps the width of the Rust type.    *)
(***************************************************************************)
EXTENDS Integers, Sequences, FiniteSets, TLC

VARIABLES cipher_key, round_keys, substitution_box, iv,
          call, pending, failed, output

vars == <<cipher_key, round_keys, substitution_box, iv,
          call, pending, failed, output>>

(***************************************************************************)
(* Machine words                                                           *)
(***************************************************************************)

\* Bit b (0..3) of a hexadecimal digit.
Bit(n, b) == (n \div (2 ^ b)) % 2

\* The ^ operator on one hexadecimal digit, tabulated.
XorTable ==
    [a \in 0..15 |-> [b \in 0..15 |->
        ((Bit(a, 0) + Bit(b, 0)) % 2)
        + 2 * ((Bit(a, 1) + Bit(b, 1)) % 2)
        + 4 * ((Bit(a, 2) + Bit(b, 2)) % 2)
        + 8 * ((Bit(a, 3) + Bit(b, 3)) % 2)]]

\* x ^ y on u32.
Xor32(x, y) ==
    << XorTable[x[1]][y[1]], XorTable[x[2]][y[2]],
       XorTable[x[3]][y[3]], XorTable[x[4]][y[4]],
       XorTable[x[5]][y[5]], XorTable[x[6]][y[6]],
       XorTable[x[7]][y[7]], XorTable[x[8]][y[8]] >>

\* x ^ y on u64.
Xor64(x, y) ==
    Xor32(SubSeq(x, 1, 8), SubSeq(y, 1, 8))
        \o Xor32(SubSeq(x, 9, 16), SubSeq(y, 9, 16))

\* The 8 low digits of x + y + c and the carry out of them.
AddCarry32(x, y, c) ==
    LET s1 == x[1] + y[1] + c
        s2 == x[2] + y[2] + (s1 \div 16)
        s3 == x[3] + y[3] + (s2 \div 16)
        s4 == x[4] + y[4] + (s3 \div 16)
        s5 == x[5] + y[5] + (s4 \div 16)
        s6 == x[6] + y[6] + (s5 \div 16)
        s7 == x[7] + y[7] + (s6 \div 16)
        s8 == x[8] + y[8] + (s7 \div 16)
    IN  << <<s1 % 16, s2 % 16, s3 % 16, s4 % 16,
             s5 % 16, s6 % 16, s7 % 16, s8 % 16>>, s8 \div 16 >>

\* ((k as u64) + (a as u64)) as u32: the sum modulo 2^32.
wrapping_add32(k, a) == AddCarry32(k, a, 0)[1]

\* u64::wrapping_add: the sum modulo 2^64.
\* A variant of wrapping_add64 that stops at the largest value.
saturating_add64(x, y) ==
    LET lo == AddCarry32(SubSeq(x, 1, 8), SubSeq(y, 1, 8), 0)
        hi == AddCarry32(SubSeq(x, 9, 16), SubSeq(y, 9, 16), lo[2])
    IN  IF hi[2] = 1 THEN <<15, 15, 15, 15, 15, 15, 15, 15,
                            15, 15, 15, 15, 15, 15, 15, 15>>
        ELSE lo[1] \o hi[1]

wrapping_add64(x, y) ==
    LET lo == AddCarry32(SubSeq(x, 1, 8), SubSeq(y, 1, 8), 0)
        hi == AddCarry32(SubSeq(x, 9, 16), SubSeq(y, 9, 16), lo[2])
    IN  lo[1] \o hi[1]

\* u32::rotate_left(11): digit j takes the top three bits of digit j-3 and
\* the lowest bit of digit j-2 (digit positions modulo 8).
rotate_left_11(x) ==
    << (x[6] \div 2) + 8 * (x[7] % 2), (x[7] \div 2) + 8 * (x[8] % 2),
       (x[8] \div 2) + 8 * (x[1] % 2), (x[1] \div 2) + 8 * (x[2] % 2),
       (x[2] \div 2) + 8 * (x[3] % 2), (x[3] \div 2) + 8 * (x[4] % 2),
       (x[4] \div 2) + 8 * (x[5] % 2), (x[5] \div 2) + 8 * (x[6] % 2) >>

\* x << 1 on u64: the top bit is lost.
RECURSIVE ShlFrom(_, _, _)
ShlFrom(x, j, c) ==
    IF j > Len(x) THEN <<>>
    ELSE <<((2 * x[j]) % 16) + c>> \o ShlFrom(x, j + 1, x[j] \div 8)

shl1(x) == ShlFrom(x, 1, 0)

\* A word written most significant digit first, as in the source text.
RECURSIVE Hex(_)
Hex(digits) ==
    IF Len(digits) = 0 THEN <<>> ELSE Hex(Tail(digits)) \o <<Head(digits)>>

\* The digits of a small non-negative integer (usize as u64 for width 16).
RECURSIVE DigitsOf(_, _)
DigitsOf(n, width) ==
    IF width = 0 THEN <<>> ELSE <<n % 16>> \o DigitsOf(n \div 16, width - 1)

Zero32 == DigitsOf(0, 8)
Zero64 == DigitsOf(0, 16)

\* u32::from_be_bytes / u64::from_be_bytes: the first byte of the array is
\* the most significant.
RECURSIVE from_be_bytes(_)
from_be_bytes(bytes) ==
    IF Len(bytes) = 0 THEN <<>>
    ELSE from_be_bytes(Tail(bytes)) \o <<Head(bytes) % 16, Head(bytes) \div 16>>

\* u32::to_be_bytes / u64::to_be_bytes.
RECURSIVE to_be_bytes(_)
to_be_bytes(w) ==
    IF Len(w) = 0 THEN <<>>
    ELSE to_be_bytes(SubSeq(w, 3, Len(w))) \o <<16 * w[2] + w[1]>>

Min(a, b) == IF a <= b THEN a ELSE b

\* The number of chunks buf.chunks(size) yields, and chunk number index
\* (from 0): every chunk has size bytes except possibly the last.
NumChunks(buf, size) == (Len(buf) + size - 1) \div size

Chunk(buf, size, index) ==
    SubSeq(buf, size * index + 1, Min(size * index + size, Len(buf)))

\* let mut array_u8 = [0u8;8]; then the chunk copied over its first bytes.
PadZero(chunk, size) == chunk \o [t \in 1..(size - Len(chunk)) |-> 0]

(***************************************************************************)
(* Substitution boxes                                                      *)
(***************************************************************************)

SUBSTITUTION_BOX_RFC7836 ==
    << 12, 4, 6, 2, 10, 5, 11, 9, 14, 8, 13, 7, 0, 3, 15, 1,
       6, 8, 2, 3, 9, 10, 5, 12, 1, 14, 4, 7, 11, 13, 0, 15,
       11, 3, 5, 8, 2, 15, 10, 13, 14, 1, 7, 4, 12, 9, 6, 0,
       12, 8, 2, 1, 13, 4, 15, 6, 7, 0, 10, 5, 3, 14, 9, 11,
       7, 15, 5, 10, 8, 1, 6, 13, 0, 9, 3, 14, 11, 4, 2, 12,
       5, 13, 15, 6, 9, 2, 12, 10, 11, 7, 8, 1, 4, 3, 14, 0,
       8, 14, 2, 5, 6, 9, 1, 12, 15, 4, 11, 0, 13, 10, 3, 7,
       1, 7, 14, 13, 0, 5, 8, 3, 4, 15, 10, 6, 9, 12, 11, 2 >>

SUBSTITUTION_BOX_RFC5831 ==
    << 4, 10, 9, 2, 13, 8, 0, 14, 6, 11, 1, 12, 7, 15, 5, 3,
       14, 11, 4, 12, 6, 13, 15, 10, 2, 3, 8, 1, 0, 7, 5, 9,
       5, 8, 1, 13, 10, 3, 4, 2, 14, 15, 12, 7, 6, 0, 9, 11,
       7, 13, 10, 1, 0, 8, 9, 15, 14, 4, 6, 12, 11, 2, 5, 3,
       6, 12, 7, 1, 5, 15, 13, 8, 4, 10, 9, 14, 0, 3, 11, 2,
       4, 11, 10, 0, 7, 2, 1, 13, 3, 6, 8, 5, 9, 12, 15, 14,
       13, 11, 4, 1, 3, 15, 5, 9, 0, 10, 14, 7, 6, 8, 2, 12,
       1, 15, 13, 0, 5, 7, 10, 4, 9, 2, 3, 14, 6, 11, 8, 12 >>

(***************************************************************************)
(* Key schedule                                                            *)
(***************************************************************************)

ROUND_KEY_POSITION ==
    << 0, 1, 2, 3, 4, 5, 6, 7,
       0, 1, 2, 3, 4, 5, 6, 7,
       0, 1, 2, 3, 4, 5, 6, 7,
       7, 6, 5, 4, 3, 2, 1, 0 >>

\* A variant of prepare_round_keys that repeats the key in one direction.
prepare_round_keys_cyclic(core) ==
    [core EXCEPT !.round_keys =
        [index \in 1..32 |-> core.cipher_key[((index - 1) % 8) + 1]]]

\* prepare_round_keys: every round key is read from the engine's cipher key.
prepare_round_keys(core) ==
    [core EXCEPT !.round_keys =
        [index \in 1..32 |-> core.cipher_key[ROUND_KEY_POSITION[index] + 1]]]

(***************************************************************************)
(* Block engine.  core is the engine: a record with the fields of Magma.   *)
(***************************************************************************)

\* x | y on one hexadecimal digit.
Or4(x, y) == (x + y + XorTable[x][y]) \div 2

\* The entries of the box are bytes: res |= s << shift_count puts the low
\* four bits of entry i in digit i and ors its high four bits into digit
\* i + 1; the high bits of the last entry are shifted out of the u32.
transformation_t(core, a) ==
    LET s == core.substitution_box
    IN  << s[a[1] + 1] % 16,
           Or4(s[16 + a[2] + 1] % 16, s[a[1] + 1] \div 16),
           Or4(s[32 + a[3] + 1] % 16, s[16 + a[2] + 1] \div 16),
           Or4(s[48 + a[4] + 1] % 16, s[32 + a[3] + 1] \div 16),
           Or4(s[64 + a[5] + 1] % 16, s[48 + a[4] + 1] \div 16),
           Or4(s[80 + a[6] + 1] % 16, s[64 + a[5] + 1] \div 16),
           Or4(s[96 + a[7] + 1] % 16, s[80 + a[6] + 1] \div 16),
           Or4(s[112 + a[8] + 1] % 16, s[96 + a[7] + 1] \div 16) >>

transformation_g(core, k, a) ==
    rotate_left_11(transformation_t(core, wrapping_add32(k, a)))

\* A variant of transformation_big_g that hands a_1 to g with a_0.
transformation_big_g_unbalanced(core, k, a_1, a_0) ==
    <<a_0, transformation_g(core, k, Xor32(a_0, a_1))>>

transformation_big_g(core, k, a_1, a_0) ==
    <<a_0, Xor32(transformation_g(core, k, a_0), a_1)>>

u64_split(a) == <<SubSeq(a, 9, 16), SubSeq(a, 1, 8)>>

\* A variant of u64_join that puts a_1 in the high half.
u64_join_unswapped(a_1, a_0) == a_0 \o a_1

u64_join(a_1, a_0) == a_1 \o a_0

\* The round loop of encrypt; st = <<round, a_1, a_0>> are its variables.
RECURSIVE encrypt_rounds(_, _)
encrypt_rounds(core, st) ==
    IF st[1] < 32
    THEN LET a == transformation_big_g(core, core.round_keys[st[1] + 1],
                                       st[2], st[3])
         IN  encrypt_rounds(core, <<st[1] + 1, a[1], a[2]>>)
    ELSE <<st[2], st[3]>>

encrypt(core, block_in) ==
    LET s == u64_split(block_in)
        a == encrypt_rounds(core, <<0, s[1], s[2]>>)
    IN  u64_join(a[1], a[2])

\* The round loop of decrypt; st = <<round, b_1, b_0>> are its variables.
RECURSIVE decrypt_rounds(_, _)
decrypt_rounds(core, st) ==
    IF st[1] # 0
    THEN LET b == transformation_big_g(core, core.round_keys[st[1]],
                                       st[2], st[3])
         IN  decrypt_rounds(core, <<st[1] - 1, b[1], b[2]>>)
    ELSE <<st[2], st[3]>>

\* A variant of decrypt that takes the round keys in the order of encrypt.
decrypt_forward(core, block_in) == encrypt(core, block_in)

decrypt(core, block_in) ==
    LET s == u64_split(block_in)
        b == decrypt_rounds(core, <<32, s[1], s[2]>>)
    IN  u64_join(b[1], b[2])

(***************************************************************************)
(* Construction and configuration                                          *)
(***************************************************************************)

\* The IV of a newly constructed engine: empty until set_iv.
new_iv == <<>>

new ==
    [cipher_key       |-> [i \in 1..8 |-> Zero32],
     round_keys       |-> [i \in 1..32 |-> Zero32],
     substitution_box |-> SUBSTITUTION_BOX_RFC7836,
     iv               |-> new_iv]

set_substitution_box(core, sbox) == [core EXCEPT !.substitution_box = sbox]

set_key(core, key) == prepare_round_keys([core EXCEPT !.cipher_key = key])

with_key(key) == set_key(new, key)

set_iv(core, blocks) == [core EXCEPT !.iv = blocks]

\* The loop of set_key_from_bytes from chunk number index on; array_u8 is
\* declared outside the loop and keeps the bytes a shorter chunk leaves.
RECURSIVE key_bytes_loop(_, _, _, _)
key_bytes_loop(core, cipher_key_bytes, index, array_u8) ==
    IF index >= NumChunks(cipher_key_bytes, 4)
    THEN [failed |-> FALSE, core |-> prepare_round_keys(core)]
    ELSE IF index >= 8
    THEN [failed |-> TRUE, core |-> core]
    ELSE LET chunk == Chunk(cipher_key_bytes, 4, index)
             arr   == [t \in 1..4 |->
                          IF t <= Len(chunk) THEN chunk[t] ELSE array_u8[t]]
         IN  key_bytes_loop(
                 [core EXCEPT !.cipher_key[index + 1] = from_be_bytes(arr)],
                 cipher_key_bytes, index + 1, arr)

\* set_key_from_bytes without its length assertion.
set_key_from_bytes_unchecked(core, cipher_key_bytes) ==
    key_bytes_loop(core, cipher_key_bytes, 0, <<0, 0, 0, 0>>)

\* Result: failed (the assertion panicked) and the engine afterwards.
set_key_from_bytes(core, cipher_key_bytes) ==
    IF Len(cipher_key_bytes) # 32
    THEN [failed |-> TRUE, core |-> core]
    ELSE key_bytes_loop(core, cipher_key_bytes, 0, <<0, 0, 0, 0>>)

(***************************************************************************)
(* Buffer modes.  A mode returns [failed, out]: failed when the call       *)
(* panics, out the Vec<u8> it returns otherwise.                           *)
(***************************************************************************)

Ok(bytes) == [failed |-> FALSE, out |-> bytes]
Panic == [failed |-> TRUE, out |-> <<>>]

\* A variant of m_invoke that is block encrypt whatever it is handed.
m_invoke_encrypt(core, f, block) == encrypt(core, block)

\* m_invoke: the block function cipher_ecb is handed.
m_invoke(core, f, block) ==
    IF f = "encrypt" THEN encrypt(core, block) ELSE decrypt(core, block)

\* The chunk loop of cipher_ecb; st = <<chunk number, result>>.
RECURSIVE ecb_loop(_, _, _, _)
ecb_loop(core, buf, f, st) ==
    IF st[1] >= NumChunks(buf, 8) THEN st[2]
    ELSE LET chunk      == Chunk(buf, 8, st[1])
             block_u64  == from_be_bytes(PadZero(chunk, 8))
             result_u64 == m_invoke(core, f, block_u64)
         IN  ecb_loop(core, buf, f,
                      <<st[1] + 1, st[2] \o to_be_bytes(result_u64)>>)

\* A variant of cipher_ecb that returns as many bytes as it was given.
cipher_ecb_truncated(core, buf, f) ==
    SubSeq(ecb_loop(core, buf, f, <<0, <<>>>>), 1, Len(buf))

cipher_ecb(core, buf, f) == ecb_loop(core, buf, f, <<0, <<>>>>)

\* generate_cmac_subkeys: <<k1, k2>>.
b64 == Hex(<<0, 0, 0, 0, 0, 0, 0, 0, 0, 0, 0, 0, 0, 0, 1, 11>>)

\* One subkey step: shift left by one bit, and xor with b64 when the most
\* significant bit of the shifted value was set.
cmac_subkey(r) == IF r[16] \div 8 = 0 THEN shl1(r) ELSE Xor64(shl1(r), b64)

cmac_subkeys_from(k1) == <<k1, cmac_subkey(k1)>>

\* A variant of cmac_subkeys_of whose second step tests the top bit of r.
cmac_subkeys_of_tests_r(r) ==
    <<cmac_subkey(r),
      IF r[16] \div 8 = 0 THEN shl1(cmac_subkey(r))
      ELSE Xor64(shl1(cmac_subkey(r)), b64)>>

cmac_subkeys_of(r) == cmac_subkeys_from(cmac_subkey(r))

generate_cmac_subkeys(core) == cmac_subkeys_of(encrypt(core, Zero64))

\* The chunk loop of cipher_mac; st = <<chunk number, block_feedback>>.
\* A variant of mac_array_u8 that marks the last chunk even when it is whole,
\* over its last byte.
mac_array_u8_marks_whole(chunk, last_round) ==
    IF last_round
    THEN SubSeq(chunk, 1, Min(Len(chunk), 7)) \o <<128>>
            \o [t \in 1..(7 - Min(Len(chunk), 7)) |-> 0]
    ELSE PadZero(chunk, 8)

\* The 8 bytes of one chunk of the message: a short last chunk is followed
\* by 0x80 and zeros, any other chunk is copied.
\* A variant of mac_array_u8 that leaves a short last chunk without its mark.
mac_array_u8_zero_padded(chunk, last_round) == PadZero(chunk, 8)

mac_array_u8(chunk, last_round) ==
    IF last_round /\ Len(chunk) < 8
    THEN chunk \o <<128>> \o [t \in 1..(7 - Len(chunk)) |-> 0]
    ELSE PadZero(chunk, 8)

\* A variant of mac_block that takes the subkey in every round.
mac_block_every_round(block_in, k_n, last_round) == Xor64(block_in, k_n)

\* The block that is encrypted in one round of the loop.
mac_block(block_in, k_n, last_round) ==
    IF last_round THEN Xor64(block_in, k_n) ELSE block_in

RECURSIVE mac_loop(_, _, _, _)
mac_loop(core, msg_buf, k_n, st) ==
    IF st[1] >= NumChunks(msg_buf, 8) THEN st[2]
    ELSE mac_loop(core, msg_buf, k_n,
            <<st[1] + 1,
              encrypt(core,
                  mac_block(Xor64(from_be_bytes(
                                mac_array_u8(Chunk(msg_buf, 8, st[1]),
                                    st[1] + 1 >= NumChunks(msg_buf, 8))),
                                st[2]),
                            k_n,
                            st[1] + 1 >= NumChunks(msg_buf, 8)))>>)

\* The subkey of the last round: k1 for a message of whole blocks, else k2.
mac_k_n(k, msg_buf) == IF Len(msg_buf) % 8 = 0 THEN k[1] ELSE k[2]

\* A variant of cipher_mac that returns the other half of the last block.
cipher_mac_low_half(core, msg_buf) ==
    u64_split(mac_loop(core, msg_buf,
                       mac_k_n(generate_cmac_subkeys(core), msg_buf),
                       <<0, Zero64>>))[2]

\* The MAC value, a u32.
\* A variant of cipher_mac that takes the empty message as one chunk of no
\* bytes, marked and xored with k2 like any short last chunk.
cipher_mac_pads_empty(core, msg_buf) ==
    IF Len(msg_buf) = 0
    THEN u64_split(encrypt(core,
             Xor64(from_be_bytes(mac_array_u8(<<>>, TRUE)),
                   generate_cmac_subkeys(core)[2])))[1]
    ELSE u64_split(mac_loop(core, msg_buf,
                            mac_k_n(generate_cmac_subkeys(core), msg_buf),
                            <<0, Zero64>>))[1]

cipher_mac(core, msg_buf) ==
    u64_split(mac_loop(core, msg_buf,
                       mac_k_n(generate_cmac_subkeys(core), msg_buf),
                       <<0, Zero64>>))[1]

\* A variant of cipher that runs ECB for Encrypt and Decrypt whatever the
\* mode, and MAC for MessageAuthentication whatever the mode.
cipher_any_mode(core, buf, cipher_operation, cipher_mode) ==
    CASE cipher_operation = "Encrypt" -> Ok(cipher_ecb(core, buf, "encrypt"))
      [] cipher_operation = "Decrypt" -> Ok(cipher_ecb(core, buf, "decrypt"))
      [] cipher_operation = "MessageAuthentication" ->
            Ok(to_be_bytes(cipher_mac(core, buf)))

cipher(core, buf, cipher_operation, cipher_mode) ==
    CASE cipher_operation = "Encrypt" ->
            IF cipher_mode = "ECB" THEN Ok(cipher_ecb(core, buf, "encrypt"))
            ELSE Panic
      [] cipher_operation = "Decrypt" ->
            IF cipher_mode = "ECB" THEN Ok(cipher_ecb(core, buf, "decrypt"))
            ELSE Panic
      [] cipher_operation = "MessageAuthentication" ->
            IF cipher_mode = "MAC" THEN Ok(to_be_bytes(cipher_mac(core, buf)))
            ELSE Panic

\* ensure_iv_not_empty: TRUE when the call returns, FALSE when it panics.
ensure_iv_not_empty(core) == Len(core.iv) # 0

\* prepare_vector_ctr: the counter seed is the most significant 32 bits of
\* the first IV block, extended with zeros to 64 bits; reading the first
\* block of an empty IV panics.
prepare_vector_ctr(core) ==
    IF Len(core.iv) = 0 THEN [failed |-> TRUE, seed |-> Zero64]
    ELSE [failed |-> FALSE, seed |-> Zero32 \o SubSeq(core.iv[1], 9, 16)]

\* A variant of output_bytes that keeps the whole block of a short chunk.
output_bytes_whole(block_out, chunk) == to_be_bytes(block_out)

\* &output.to_be_bytes()[..chunk.len()]: the bytes a chunk adds to result.
output_bytes(block_out, chunk) ==
    SubSeq(to_be_bytes(block_out), 1, Len(chunk))

\* The chunk loop of cipher_ctr; st = <<chunk_index, result>>.
RECURSIVE ctr_loop(_, _, _, _)
ctr_loop(core, buf, iv_ctr, st) ==
    IF st[1] >= NumChunks(buf, 8) THEN st[2]
    ELSE LET chunk  == Chunk(buf, 8, st[1])
             block  == from_be_bytes(PadZero(chunk, 8))
             ctr    == wrapping_add64(iv_ctr, DigitsOf(st[1], 16))
             gamma  == encrypt(core, ctr)
             outblk == Xor64(gamma, block)
         IN  ctr_loop(core, buf, iv_ctr,
                      <<st[1] + 1,
                        st[2] \o output_bytes(outblk, chunk)>>)

cipher_ctr(core, buf) ==
    LET iv_ctr == prepare_vector_ctr(core)
    IN  IF iv_ctr.failed THEN Panic
        ELSE Ok(ctr_loop(core, buf, iv_ctr.seed, <<0, <<>>>>))

ctr_encrypt(core, buf) == cipher_ctr(core, buf)

\* A variant of decrypt whose counter does not start from the IV.
ctr_decrypt_zero_seed(core, buf) ==
    IF prepare_vector_ctr(core).failed THEN Panic
    ELSE Ok(ctr_loop(core, buf, Zero64, <<0, <<>>>>))

ctr_decrypt(core, buf) == cipher_ctr(core, buf)

\* A variant of push_back that puts the block at the front.
push_front(register_r, block) == <<block>> \o register_r

\* register_r.push_back(block).
push_back(register_r, block) == register_r \o <<block>>

\* The chunk loop of CFB; st = <<chunk number, register_r, result>>.
\* feedback names what is pushed to the register: the output block
\* (encrypt) or the input block (decrypt).  pop_front().unwrap() panics on
\* an empty register.
\* A variant of pop_front that reads the front block and leaves it there.
peek_front(register_r) == register_r

\* The register after pop_front took its first block.
pop_front(register_r) == Tail(register_r)

\* The body of the loop for the chunk st[1], on a register that is not
\* empty: the locals after it.
cfb_step(core, buf, feedback, st) ==
    LET chunk      == Chunk(buf, 8, st[1])
        block      == from_be_bytes(PadZero(chunk, 8))
        register_n == Head(st[2])
        outblk     == Xor64(encrypt(core, register_n), block)
        pushed     == IF feedback = "output" THEN outblk ELSE block
    IN  <<st[1] + 1,
          push_back(pop_front(st[2]), pushed),
          st[3] \o output_bytes(outblk, chunk)>>

RECURSIVE cfb_loop(_, _, _, _)
cfb_loop(core, buf, feedback, st) ==
    IF st[1] >= NumChunks(buf, 8) THEN Ok(st[3])
    ELSE IF Len(st[2]) = 0 THEN Panic
    ELSE cfb_loop(core, buf, feedback, cfb_step(core, buf, feedback, st))

\* A variant of encrypt that starts the loop without looking at the IV.
cfb_encrypt_unchecked(core, buf) ==
    cfb_loop(core, buf, "output", <<0, core.iv, <<>>>>)

\* A variant of decrypt that feeds the register as encrypt does.
cfb_decrypt_output_feedback(core, buf) ==
    IF ~ensure_iv_not_empty(core) THEN Panic
    ELSE cfb_loop(core, buf, "output", <<0, core.iv, <<>>>>)

cfb_encrypt(core, buf) ==
    IF ~ensure_iv_not_empty(core) THEN Panic
    ELSE cfb_loop(core, buf, "output", <<0, core.iv, <<>>>>)

cfb_decrypt(core, buf) ==
    IF ~ensure_iv_not_empty(core) THEN Panic
    ELSE cfb_loop(core, buf, "input", <<0, core.iv, <<>>>>)

(***************************************************************************)
(* Inputs: the test vectors of the repository                              *)
(***************************************************************************)

CIPHER_KEY_RFC8891 ==
    << Hex(<<15, 15, 14, 14, 13, 13, 12, 12>>), Hex(<<11, 11, 10, 10, 9, 9, 8, 8>>),
       Hex(<<7, 7, 6, 6, 5, 5, 4, 4>>),         Hex(<<3, 3, 2, 2, 1, 1, 0, 0>>),
       Hex(<<15, 0, 15, 1, 15, 2, 15, 3>>),     Hex(<<15, 4, 15, 5, 15, 6, 15, 7>>),
       Hex(<<15, 8, 15, 9, 15, 10, 15, 11>>),   Hex(<<15, 12, 15, 13, 15, 14, 15, 15>>) >>

\* cipher_key_u8: the same key as 32 bytes.
CIPHER_KEY_U8 ==
    << 255, 238, 221, 204, 187, 170, 153, 136,
       119, 102, 85, 68, 51, 34, 17, 0,
       240, 241, 242, 243, 244, 245, 246, 247,
       248, 249, 250, 251, 252, 253, 254, 255 >>

\* k1 of the test encrypt_rfc5830.
K1_RFC5831 ==
    << Hex(<<3, 3, 2, 0, 6, 13, 5, 4>>),
       Hex(<<3, 2, 6, 12, 6, 5, 6, 8>>),
       Hex(<<2, 0, 6, 5, 7, 3, 6, 9>>),
       Hex(<<6, 2, 6, 14, 7, 3, 7, 3>>),
       Hex(<<7, 9, 6, 7, 6, 1, 2, 0>>),
       Hex(<<7, 4, 7, 4, 6, 7, 6, 9>>),
       Hex(<<6, 5, 6, 8, 6, 5, 7, 3>>),
       Hex(<<7, 3, 3, 13, 2, 12, 2, 0>>) >>

PLAINTEXT_RFC8891 == Hex(<<15, 14, 13, 12, 11, 10, 9, 8, 7, 6, 5, 4, 3, 2, 1, 0>>)
ENCRYPTED_RFC8891 == Hex(<<4, 14, 14, 9, 0, 1, 14, 5, 12, 2, 13, 8, 12, 10, 3, 13>>)

\* PLAINTEXT1..4 of GOST R 34.13-2015 as the bytes of one buffer.
PLAINTEXT_GOST_R3413_2015 ==
    << 146, 222, 240, 107, 60, 19, 10, 89,
       219, 84, 199, 4, 248, 24, 157, 32,
       74, 152, 251, 46, 103, 168, 2, 76,
       137, 18, 64, 155, 23, 181, 126, 65 >>

\* The first two blocks of IV_GOST_R3413_2015.
IV_GOST_R3413_2015 ==
    << Hex(<<1, 2, 3, 4, 5, 6, 7, 8, 9, 0, 10, 11, 12, 13, 14, 15>>),
       Hex(<<2, 3, 4, 5, 6, 7, 8, 9, 0, 10, 11, 12, 13, 14, 15, 1>>) >>

\* The longest message whose every bit is changed in turn.
MaxFlipLen == 9

\* The longest buffer handed to a mode.
MaxBufLen == 32

Keys == {CIPHER_KEY_RFC8891, K1_RFC5831}

KeyBytes ==
    { CIPHER_KEY_U8, PLAINTEXT_GOST_R3413_2015,
      <<>>, SubSeq(CIPHER_KEY_U8, 1, 31), CIPHER_KEY_U8 \o <<0>> }

SBoxes == {SUBSTITUTION_BOX_RFC7836, SUBSTITUTION_BOX_RFC5831}

\* A box of 4-bit entries none of whose rows is a permutation of 0..15.
SUBSTITUTION_BOX_NOT_PERMUTATION ==
    << 0, 0, 2, 2, 4, 4, 6, 6, 8, 8, 10, 10, 12, 12, 14, 14,
       15, 14, 13, 12, 15, 14, 13, 12, 15, 14, 13, 12, 15, 14, 13, 12,
       0, 0, 2, 2, 4, 4, 6, 6, 8, 8, 10, 10, 12, 12, 14, 14,
       15, 14, 13, 12, 15, 14, 13, 12, 15, 14, 13, 12, 15, 14, 13, 12,
       0, 0, 2, 2, 4, 4, 6, 6, 8, 8, 10, 10, 12, 12, 14, 14,
       15, 14, 13, 12, 15, 14, 13, 12, 15, 14, 13, 12, 15, 14, 13, 12,
       0, 0, 2, 2, 4, 4, 6, 6, 8, 8, 10, 10, 12, 12, 14, 14,
       15, 14, 13, 12, 15, 14, 13, 12, 15, 14, 13, 12, 15, 14, 13, 12 >>

\* A box of entries that use all 8 bits of the u8.
SUBSTITUTION_BOX_BYTES ==
    << 5, 42, 79, 116, 153, 190, 227, 8, 45, 82, 119, 156, 193, 230, 11, 48,
       96, 133, 170, 207, 244, 25, 62, 99, 136, 173, 210, 247, 28, 65, 102, 139,
       187, 224, 5, 42, 79, 116, 153, 190, 227, 8, 45, 82, 119, 156, 193, 230,
       22, 59, 96, 133, 170, 207, 244, 25, 62, 99, 136, 173, 210, 247, 28, 65,
       113, 150, 187, 224, 5, 42, 79, 116, 153, 190, 227, 8, 45, 82, 119, 156,
       204, 241, 22, 59, 96, 133, 170, 207, 244, 25, 62, 99, 136, 173, 210, 247,
       39, 76, 113, 150, 187, 224, 5, 42, 79, 116, 153, 190, 227, 8, 45, 82,
       130, 167, 204, 241, 22, 59, 96, 133, 170, 207, 244, 25, 62, 99, 136, 173 >>

\* Contents of the [u8;128] set_substitution_box accepts.
AnySBoxes ==
    SBoxes \cup {SUBSTITUTION_BOX_NOT_PERMUTATION, SUBSTITUTION_BOX_BYTES}

IVs == {<<>>, SubSeq(IV_GOST_R3413_2015, 1, 1), IV_GOST_R3413_2015}

Blocks == {PLAINTEXT_RFC8891, ENCRYPTED_RFC8891, Zero64}

\* Buffers of every length to MaxBufLen; the plaintext repeats past its end.
Buffer(n) ==
    [t \in 1..n |->
        PLAINTEXT_GOST_R3413_2015[((t - 1) % Len(PLAINTEXT_GOST_R3413_2015)) + 1]]

\* A message of one block whose tag under the key of RFC 8891 is also the
\* tag of the message that differs from it in one bit.
MESSAGE_ONE_BLOCK == <<255, 17, 252, 107, 165, 155, 213, 161>>

Buffers == {Buffer(n) : n \in 0..MaxBufLen} \cup {MESSAGE_ONE_BLOCK}

CipherOperation == {"Encrypt", "Decrypt", "MessageAuthentication"}
CipherMode == {"ECB", "MAC"}

(***************************************************************************)
(* The engine and its caller                                               *)
(***************************************************************************)

\* The engine as the record the operations take.
self ==
    [cipher_key       |-> cipher_key,
     round_keys       |-> round_keys,
     substitution_box |-> substitution_box,
     iv               |-> iv]

engine == <<cipher_key, round_keys, substitution_box, iv>>

Becomes(core) ==
    /\ cipher_key' = core.cipher_key
    /\ round_keys' = core.round_keys
    /\ substitution_box' = core.substitution_box
    /\ iv' = core.iv

Request(op, arg) ==
    [op |-> op, operation |-> "-", mode |-> "-", arg |-> arg]

Returns(f, out) ==
    /\ failed' = f
    /\ output' = out
    /\ pending' = FALSE
    /\ UNCHANGED call

\* A call that changes the engine or panics.
BecomesResult(r) == Becomes(r.core) /\ Returns(r.failed, <<>>)

\* A call that returns bytes or panics.
ReturnsResult(r) == Returns(r.failed, r.out)

Init ==
    /\ cipher_key = new.cipher_key
    /\ round_keys = new.round_keys
    /\ substitution_box = new.substitution_box
    /\ iv = new.iv
    /\ call = Request("new", <<>>)
    /\ pending = FALSE
    /\ failed = FALSE
    /\ output = <<>>

\* The caller chooses the next operation and its arguments.
Call ==
    /\ ~pending
    /\ pending' = TRUE
    /\ failed' = FALSE
    /\ output' = <<>>
    /\ UNCHANGED engine
    /\ \/ call' = Request("new", <<>>)
       \/ \E k \in Keys :
            call' = Request("with_key", k) \/ call' = Request("set_key", k)
       \/ \E b \in KeyBytes : call' = Request("set_key_from_bytes", b)
       \/ \E s \in SBoxes : call' = Request("set_substitution_box", s)
       \/ \E v \in IVs : call' = Request("set_iv", v)
       \/ \E b \in Blocks :
            call' = Request("encrypt", b) \/ call' = Request("decrypt", b)
       \/ \E buf \in Buffers, o \in CipherOperation, m \in CipherMode :
            call' = [op |-> "cipher", operation |-> o, mode |-> m, arg |-> buf]
       \/ \E buf \in Buffers, op \in {"ctr_encrypt", "ctr_decrypt",
                                       "cfb_encrypt", "cfb_decrypt"} :
            call' = Request(op, buf)

New ==
    /\ pending /\ call.op = "new"
    /\ Becomes(new)
    /\ Returns(FALSE, <<>>)

WithKey ==
    /\ pending /\ call.op = "with_key"
    /\ Becomes(with_key(call.arg))
    /\ Returns(FALSE, <<>>)

SetSubstitutionBox ==
    /\ pending /\ call.op = "set_substitution_box"
    /\ Becomes(set_substitution_box(self, call.arg))
    /\ Returns(FALSE, <<>>)

SetKey ==
    /\ pending /\ call.op = "set_key"
    /\ Becomes(set_key(self, call.arg))
    /\ Returns(FALSE, <<>>)

SetKeyFromBytes ==
    /\ pending /\ call.op = "set_key_from_bytes"
    /\ BecomesResult(set_key_from_bytes(self, call.arg))

SetIv ==
    /\ pending /\ call.op = "set_iv"
    /\ Becomes(set_iv(self, call.arg))
    /\ Returns(FALSE, <<>>)

Encrypt ==
    /\ pending /\ call.op = "encrypt"
    /\ Returns(FALSE, encrypt(self, call.arg))
    /\ UNCHANGED engine

Decrypt ==
    /\ pending /\ call.op = "decrypt"
    /\ Returns(FALSE, decrypt(self, call.arg))
    /\ UNCHANGED engine

Cipher ==
    /\ pending /\ call.op = "cipher"
    /\ ReturnsResult(cipher(self, call.arg, call.operation, call.mode))
    /\ UNCHANGED engine

CtrEncrypt ==
    /\ pending /\ call.op = "ctr_encrypt"
    /\ ReturnsResult(ctr_encrypt(self, call.arg))
    /\ UNCHANGED engine

CtrDecrypt ==
    /\ pending /\ call.op = "ctr_decrypt"
    /\ ReturnsResult(ctr_decrypt(self, call.arg))
    /\ UNCHANGED engine

\* A variant of CfbEncrypt that leaves the register it shifted in the engine.
CfbEncryptKeepsRegister ==
    /\ pending /\ call.op = "cfb_encrypt"
    /\ ReturnsResult(cfb_encrypt(self, call.arg))
    /\ iv' = IF Len(iv) = 0 \/ Len(call.arg) = 0 THEN iv
             ELSE Tail(iv) \o <<Head(iv)>>
    /\ UNCHANGED <<cipher_key, round_keys, substitution_box>>

CfbEncrypt ==
    /\ pending /\ call.op = "cfb_encrypt"
    /\ ReturnsResult(cfb_encrypt(self, call.arg))
    /\ UNCHANGED engine

CfbDecrypt ==
    /\ pending /\ call.op = "cfb_decrypt"
    /\ ReturnsResult(cfb_decrypt(self, call.arg))
    /\ UNCHANGED engine

Next ==
    \/ Call
    \/ New
    \/ WithKey
    \/ SetSubstitutionBox
    \/ SetKey
    \/ SetKeyFromBytes
    \/ SetIv
    \/ Encrypt
    \/ Decrypt
    \/ Cipher
    \/ CtrEncrypt
    \/ CtrDecrypt
    \/ CfbEncrypt
    \/ CfbDecrypt

Spec == Init /\ [][Next]_vars

(***************************************************************************)
(* The chunk loop of cipher_ctr as a function of the counter seed: the     *)
(* caller hands the loop a seed iv_ctr and a buffer.                       *)
(***************************************************************************)

\* Counter seeds: the largest two values of a u64, the seed of the test
\* ctr_steps_gost_r_34_13_2015, and a seed whose low half is full.
Seeds ==
    { Hex(<<15, 15, 15, 15, 15, 15, 15, 15, 15, 15, 15, 15, 15, 15, 15, 15>>),
      Hex(<<15, 15, 15, 15, 15, 15, 15, 15, 15, 15, 15, 15, 15, 15, 15, 14>>),
      Hex(<<1, 2, 3, 4, 5, 6, 7, 8, 0, 0, 0, 0, 0, 0, 0, 0>>),
      Hex(<<0, 0, 0, 0, 0, 0, 0, 0, 15, 15, 15, 15, 15, 15, 15, 15>>) }

InitCtr ==
    /\ \E k \in Keys :
          /\ cipher_key = with_key(k).cipher_key
          /\ round_keys = with_key(k).round_keys
          /\ substitution_box = with_key(k).substitution_box
          /\ iv = with_key(k).iv
    /\ call = Request("with_key", <<>>)
    /\ pending = FALSE
    /\ failed = FALSE
    /\ output = <<>>

CallCtr ==
    /\ ~pending
    /\ pending' = TRUE
    /\ failed' = FALSE
    /\ output' = <<>>
    /\ UNCHANGED engine
    /\ \E seed \in Seeds, buf \in Buffers :
          call' = [Request("cipher_ctr", buf) EXCEPT !.mode = seed]

\* The loop from the seed the request carries in place of a mode.
CipherCtrLoop ==
    /\ pending /\ call.op = "cipher_ctr"
    /\ Returns(FALSE, ctr_loop(self, call.arg, call.mode, <<0, <<>>>>))
    /\ UNCHANGED engine

NextCtr == CallCtr \/ CipherCtrLoop

SpecCtr == InitCtr /\ [][NextCtr]_vars

(***************************************************************************)
(* CFB encrypt and decrypt chunk by chunk.  While a call is pending,       *)
(* output holds the locals of the loop, <<chunk number, register_r,        *)
(* result>>, and is empty before the call has entered the function.        *)
(***************************************************************************)

InitCfb ==
    /\ \E k \in Keys, blocks \in IVs :
          /\ cipher_key = set_iv(with_key(k), blocks).cipher_key
          /\ round_keys = set_iv(with_key(k), blocks).round_keys
          /\ substitution_box = set_iv(with_key(k), blocks).substitution_box
          /\ iv = set_iv(with_key(k), blocks).iv
    /\ call = Request("set_iv", <<>>)
    /\ pending = FALSE
    /\ failed = FALSE
    /\ output = <<>>

CallCfb ==
    /\ ~pending
    /\ pending' = TRUE
    /\ failed' = FALSE
    /\ output' = <<>>
    /\ UNCHANGED engine
    /\ \E op \in {"cfb_encrypt", "cfb_decrypt"}, buf \in Buffers :
          call' = Request(op, buf)

\* ensure_iv_not_empty and the register made from a copy of the IV.
CfbEnter ==
    /\ pending /\ Len(output) = 0
    /\ IF ~ensure_iv_not_empty(self)
       THEN Returns(TRUE, <<>>)
       ELSE /\ output' = <<0, iv, <<>>>>
            /\ UNCHANGED <<call, pending, failed>>
    /\ UNCHANGED engine

\* One pass of the loop; pop_front().unwrap() panics on an empty register.
CfbChunk ==
    /\ pending /\ Len(output) = 3
    /\ output[1] < NumChunks(call.arg, 8)
    /\ IF Len(output[2]) = 0
       THEN Returns(TRUE, <<>>)
       ELSE /\ output' = cfb_step(self, call.arg,
                                  IF call.op = "cfb_encrypt" THEN "output"
                                  ELSE "input",
                                  output)
            /\ UNCHANGED <<call, pending, failed>>
    /\ UNCHANGED engine

\* The loop has no chunk left: result is returned.
CfbReturn ==
    /\ pending /\ Len(output) = 3
    /\ output[1] >= NumChunks(call.arg, 8)
    /\ Returns(FALSE, output[3])
    /\ UNCHANGED engine

NextCfb == CallCfb \/ CfbEnter \/ CfbChunk \/ CfbReturn

SpecCfb == InitCfb /\ [][NextCfb]_vars

(***************************************************************************)
(* The block functions under any content of the substitution box.          *)
(***************************************************************************)

InitSBox ==
    /\ \E core \in {new} \cup {with_key(k) : k \in Keys} :
          /\ cipher_key = core.cipher_key
          /\ round_keys = core.round_keys
          /\ substitution_box = core.substitution_box
          /\ iv = core.iv
    /\ call = Request("new", <<>>)
    /\ pending = FALSE
    /\ failed = FALSE
    /\ output = <<>>

CallSBox ==
    /\ ~pending
    /\ pending' = TRUE
    /\ failed' = FALSE
    /\ output' = <<>>
    /\ UNCHANGED engine
    /\ \/ \E s \in AnySBoxes : call' = Request("set_substitution_box", s)
       \/ \E b \in Blocks :
            call' = Request("encrypt", b) \/ call' = Request("decrypt", b)

NextSBox == CallSBox \/ SetSubstitutionBox \/ Encrypt \/ Decrypt

SpecSBox == InitSBox /\ [][NextSBox]_vars

(***************************************************************************)
(* Properties                                                              *)
(***************************************************************************)

\* A call of op has returned.
Returned(op) == ~pending /\ call.op = op

\* C1: under the default substitution box and whatever key is set, a block
\* that encrypt returned decrypts to the block it was given, and a block
\* that decrypt returned encrypts to the block it was given, on the same
\* engine.
C1_BlockRoundTrip ==
    substitution_box = SUBSTITUTION_BOX_RFC7836 =>
        /\ Returned("encrypt") => decrypt(self, output) = call.arg
        /\ Returned("decrypt") => encrypt(self, output) = call.arg

\* encrypt returned the ciphertext of RFC 8891 under the key of RFC 8891.
C1_Witness ==
    /\ Returned("encrypt")
    /\ substitution_box = SUBSTITUTION_BOX_RFC7836
    /\ cipher_key = CIPHER_KEY_RFC8891
    /\ call.arg = PLAINTEXT_RFC8891
    /\ output = ENCRYPTED_RFC8891

\* C2: in every state the round keys are the schedule of the current cipher
\* key: round key i is key word i mod 8 for i in 0..23 and key word 31 - i
\* for i in 24..31.
C2_RoundKeysFollowKey ==
    \A i \in 0..31 :
        round_keys[i + 1] =
            IF i <= 23 THEN cipher_key[(i % 8) + 1] ELSE cipher_key[(31 - i) + 1]

\* A key was set from 32 bytes, and round key 24 is the last word of that
\* key and differs from round key 16.
C2_Witness ==
    /\ Returned("set_key_from_bytes") /\ ~failed
    /\ call.arg = PLAINTEXT_GOST_R3413_2015
    /\ to_be_bytes(cipher_key[8]) = SubSeq(PLAINTEXT_GOST_R3413_2015, 29, 32)
    /\ round_keys[25] = cipher_key[8]
    /\ round_keys[25] # CIPHER_KEY_RFC8891[8]
    /\ round_keys[25] # round_keys[17]

\* The (operation, mode) pairs cipher rejects.
InvalidCombination(operation, mode) ==
    \/ operation \in {"Encrypt", "Decrypt"} /\ mode = "MAC"
    \/ operation = "MessageAuthentication" /\ mode # "MAC"

\* The first block of a buffer of at least 8 bytes.
FirstBlock(buf) == from_be_bytes(SubSeq(buf, 1, 8))

\* C3: cipher fails, and returns no buffer, exactly for Encrypt or Decrypt
\* with mode MAC and for MessageAuthentication with a mode other than MAC;
\* Encrypt with ECB returns what block encrypt makes of the first block and
\* Decrypt with ECB what block decrypt makes of it.
C3_CipherCombinations ==
    Returned("cipher") =>
        /\ failed <=> InvalidCombination(call.operation, call.mode)
        /\ failed => output = <<>>
        /\ (call.operation = "Encrypt" /\ call.mode = "ECB"
                /\ Len(call.arg) >= 8) =>
              SubSeq(output, 1, 8) =
                  to_be_bytes(encrypt(self, FirstBlock(call.arg)))
        /\ (call.operation = "Decrypt" /\ call.mode = "ECB"
                /\ Len(call.arg) >= 8) =>
              SubSeq(output, 1, 8) =
                  to_be_bytes(decrypt(self, FirstBlock(call.arg)))
        /\ (call.operation = "MessageAuthentication" /\ call.mode = "MAC") =>
              Len(output) = 4

\* cipher was asked to Encrypt a buffer of two blocks in mode MAC and failed.
C3_Witness ==
    /\ Returned("cipher")
    /\ call.operation = "Encrypt" /\ call.mode = "MAC"
    /\ Len(call.arg) = 16
    /\ failed /\ output = <<>>

\* The big-endian u32 of four bytes.
BigEndianWord(b) ==
    << b[4] % 16, b[4] \div 16, b[3] % 16, b[3] \div 16,
       b[2] % 16, b[2] \div 16, b[1] % 16, b[1] \div 16 >>

\* The 8 key words of 32 bytes.
WordsOfBytes(bytes) ==
    [i \in 1..8 |-> BigEndianWord(SubSeq(bytes, 4 * i - 3, 4 * i))]

\* C4: a step of set_key_from_bytes on a slice whose length is not 32 fails
\* and leaves cipher_key, round_keys and substitution_box as they were; a
\* step on 32 bytes succeeds, sets key word i to the big-endian value of
\* bytes 4i..4i+3 and leaves the engine as set_key with those words does.
C4_SetKeyFromBytes ==
    [][ (pending /\ call.op = "set_key_from_bytes") =>
          IF Len(call.arg) # 32
          THEN /\ failed'
               /\ cipher_key' = cipher_key
               /\ round_keys' = round_keys
               /\ substitution_box' = substitution_box
          ELSE /\ ~failed'
               /\ cipher_key' = WordsOfBytes(call.arg)
               /\ self' = set_key(self, WordsOfBytes(call.arg)) ]_vars

\* A call with 31 bytes failed on an engine that holds the key of RFC 8891.
C4_Witness ==
    /\ Returned("set_key_from_bytes")
    /\ Len(call.arg) = 31
    /\ failed
    /\ cipher_key = CIPHER_KEY_RFC8891

\* C5: CFB encrypt and CFB decrypt on an engine whose IV is empty fail and
\* return no buffer, whatever the input buffer.
C5_CfbEmptyIvFails ==
    ((Returned("cfb_encrypt") \/ Returned("cfb_decrypt")) /\ Len(iv) = 0) =>
        failed /\ output = <<>>

\* CFB encrypt of an empty buffer failed on an engine with a key and no IV.
C5_Witness ==
    /\ Returned("cfb_encrypt")
    /\ Len(iv) = 0
    /\ Len(call.arg) = 0
    /\ cipher_key = CIPHER_KEY_RFC8891
    /\ failed

\* n zero bytes.
Zeros(n) == [t \in 1..n |-> 0]

\* The last chunk of a buffer whose length is not a multiple of 8.
ShortChunk(buf) == SubSeq(buf, Len(buf) - (Len(buf) % 8) + 1, Len(buf))

\* The last chunk as the block the modes make of it: zeros follow the bytes.
ShortBlock(buf) ==
    from_be_bytes(ShortChunk(buf) \o Zeros(8 - Len(ShortChunk(buf))))

\* The bytes of out from position from to its end.
BytesFrom(out, from) == SubSeq(out, from, Len(out))

\* The block function of an operation of cipher.
BlockOf(operation, block) ==
    IF operation = "Encrypt" THEN encrypt(self, block)
    ELSE decrypt(self, block)

\* C6: ECB encrypt and ECB decrypt of n bytes return 8 * ceil(n / 8) bytes;
\* the last 8 bytes of the output are the block transform of a short final
\* chunk followed by zeros; an empty buffer gives an empty output.
C6_EcbLength ==
    (Returned("cipher") /\ call.mode = "ECB"
        /\ call.operation \in {"Encrypt", "Decrypt"}) =>
        /\ ~failed
        /\ Len(output) = 8 * ((Len(call.arg) + 7) \div 8)
        /\ Len(call.arg) = 0 => output = <<>>
        /\ Len(call.arg) % 8 # 0 =>
              BytesFrom(output, Len(output) - 7) =
                  to_be_bytes(BlockOf(call.operation, ShortBlock(call.arg)))

\* ECB encrypt of 17 bytes returned 24 bytes.
C6_Witness ==
    /\ Returned("cipher")
    /\ call.operation = "Encrypt" /\ call.mode = "ECB"
    /\ Len(call.arg) = 17
    /\ Len(output) = 24
    /\ cipher_key = CIPHER_KEY_RFC8891

\* The number of the chunk that holds the last byte of a buffer that does
\* not end on a block.
LastIndex(buf) == Len(buf) \div 8

\* The counter of CTR at chunk c: the high half of the first IV block over
\* 32 zero bits, plus c.
CtrAt(c) ==
    wrapping_add64(Zero32 \o SubSeq(iv[1], 9, 16), DigitsOf(c, 16))

\* The block CFB encrypts at chunk c: an IV block while they last, then the
\* ciphertext block of Len(iv) chunks earlier.
CfbRegisterAt(c, ciphertext) ==
    IF c < Len(iv) THEN iv[c + 1]
    ELSE from_be_bytes(SubSeq(ciphertext, 8 * (c - Len(iv)) + 1,
                                          8 * (c - Len(iv)) + 8))

\* The first bytes, as many as the last chunk has, of gamma xor that chunk.
ShortOutput(gamma, buf) ==
    SubSeq(to_be_bytes(Xor64(gamma, ShortBlock(buf))), 1, Len(buf) % 8)

\* C7: CTR encrypt and decrypt and, with a non-empty IV, CFB encrypt and
\* decrypt of n bytes return n bytes; a final chunk of L < 8 bytes adds the
\* first L bytes of its output block and nothing else.
C7_StreamLength ==
    /\ ((Returned("ctr_encrypt") \/ Returned("ctr_decrypt")) /\ Len(iv) > 0) =>
          /\ ~failed
          /\ Len(output) = Len(call.arg)
          /\ Len(call.arg) % 8 # 0 =>
                BytesFrom(output, 8 * LastIndex(call.arg) + 1) =
                    ShortOutput(encrypt(self, CtrAt(LastIndex(call.arg))),
                                call.arg)
    /\ (Returned("cfb_encrypt") /\ Len(iv) > 0) =>
          /\ ~failed
          /\ Len(output) = Len(call.arg)
          /\ Len(call.arg) % 8 # 0 =>
                BytesFrom(output, 8 * LastIndex(call.arg) + 1) =
                    ShortOutput(
                        encrypt(self,
                            CfbRegisterAt(LastIndex(call.arg), output)),
                        call.arg)
    /\ (Returned("cfb_decrypt") /\ Len(iv) > 0) =>
          /\ ~failed
          /\ Len(output) = Len(call.arg)
          /\ Len(call.arg) % 8 # 0 =>
                BytesFrom(output, 8 * LastIndex(call.arg) + 1) =
                    ShortOutput(
                        encrypt(self,
                            CfbRegisterAt(LastIndex(call.arg), call.arg)),
                        call.arg)

\* CFB encrypt of 17 bytes returned 17 bytes under an IV of two blocks.
C7_Witness ==
    /\ Returned("cfb_encrypt")
    /\ Len(iv) = 2
    /\ Len(call.arg) = 17
    /\ Len(output) = 17
    /\ ~failed

\* C8: ECB decrypt of what ECB encrypt returned for buf is buf followed by
\* zero bytes to the next multiple of 8, and its first Len(buf) bytes are
\* buf.
C8_EcbRoundTrip ==
    (Returned("cipher") /\ call.operation = "Encrypt" /\ call.mode = "ECB") =>
        /\ cipher(self, output, "Decrypt", "ECB") =
              Ok(call.arg \o Zeros(8 * ((Len(call.arg) + 7) \div 8)
                                       - Len(call.arg)))
        /\ SubSeq(cipher(self, output, "Decrypt", "ECB").out,
                  1, Len(call.arg)) = call.arg

\* ECB encrypt returned 16 bytes for a buffer of 13 bytes.
C8_Witness ==
    /\ Returned("cipher")
    /\ call.operation = "Encrypt" /\ call.mode = "ECB"
    /\ Len(call.arg) = 13
    /\ Len(output) = 16
    /\ SubSeq(output, 1, 13) # call.arg

\* What a mode returned, as the mode's result.
Result == [failed |-> failed, out |-> output]

\* C9: CTR encrypt and CTR decrypt return the same for every engine and
\* buffer, and CTR of what CTR returned is the original buffer.
C9_CtrSymmetry ==
    /\ Returned("ctr_encrypt") =>
          /\ ctr_decrypt(self, call.arg) = Result
          /\ ~failed => ctr_decrypt(self, output) = Ok(call.arg)
          /\ ~failed => ctr_encrypt(self, output) = Ok(call.arg)
    /\ Returned("ctr_decrypt") =>
          /\ ctr_encrypt(self, call.arg) = Result
          /\ ~failed => ctr_encrypt(self, output) = Ok(call.arg)

\* CTR encrypt returned 13 bytes that differ from the 13 it was given.
C9_Witness ==
    /\ Returned("ctr_encrypt")
    /\ ~failed
    /\ Len(call.arg) = 13
    /\ Len(output) = 13
    /\ output # call.arg

\* C10: with a non-empty IV, CFB decrypt of what CFB encrypt returned for
\* buf is buf, on the same engine.
C10_CfbRoundTrip ==
    (Returned("cfb_encrypt") /\ Len(iv) > 0) =>
        /\ ~failed
        /\ cfb_decrypt(self, output) = Ok(call.arg)

\* CFB encrypt returned the ciphertext of 17 bytes, three chunks with a
\* short last one, under an IV of one block.
C10_Witness ==
    /\ Returned("cfb_encrypt")
    /\ Len(iv) = 1
    /\ Len(call.arg) = 17
    /\ ~failed
    /\ output # call.arg

\* The requests that invoke a mode: cipher, CTR, or CFB on an engine that
\* has an IV.
ModeRequest ==
    \/ call.op \in {"cipher", "ctr_encrypt", "ctr_decrypt"}
    \/ call.op \in {"cfb_encrypt", "cfb_decrypt"} /\ Len(iv) > 0

\* What the mode of a request returns on the engine as it is.
ModeResult(c) ==
    CASE c.op = "cipher"      -> cipher(self, c.arg, c.operation, c.mode)
      [] c.op = "ctr_encrypt" -> ctr_encrypt(self, c.arg)
      [] c.op = "ctr_decrypt" -> ctr_decrypt(self, c.arg)
      [] c.op = "cfb_encrypt" -> cfb_encrypt(self, c.arg)
      [] c.op = "cfb_decrypt" -> cfb_decrypt(self, c.arg)

\* C11: a mode invocation leaves cipher_key, round_keys, substitution_box
\* and the IV as they were, and the same request made again on the engine
\* it left returns what it returned: counter, register and feedback start
\* anew on every call.
C11_ModeFrame ==
    /\ [][(pending /\ ModeRequest) => engine' = engine]_vars
    /\ []((~pending /\ ModeRequest) => ModeResult(call) = Result)

\* CFB encrypt returned 16 bytes under an IV of two blocks, and CFB encrypt
\* of the same buffer on the engine it left returns the same bytes.
C11_Witness ==
    /\ Returned("cfb_encrypt")
    /\ Len(iv) = 2
    /\ Len(call.arg) = 16
    /\ ~failed
    /\ cfb_encrypt(self, call.arg) = Ok(output)

\* A MAC was asked of cipher and returned.
ReturnedMac ==
    /\ Returned("cipher")
    /\ call.operation = "MessageAuthentication" /\ call.mode = "MAC"

\* Chunk j (0-based) of 8 whole bytes, as a block.
BlockAt(buf, j) == from_be_bytes(SubSeq(buf, 8 * j + 1, 8 * j + 8))

\* The number of the last chunk of a message that is not empty.
LastChunk(buf) == (Len(buf) - 1) \div 8

\* The last chunk as the block the MAC makes of it: whole as it is, short
\* followed by 0x80 and zeros.
MacLastBlock(buf) ==
    IF Len(buf) % 8 = 0 THEN BlockAt(buf, LastChunk(buf))
    ELSE from_be_bytes(ShortChunk(buf) \o <<128>>
                           \o Zeros(7 - Len(ShortChunk(buf))))

\* The feedback before chunk j: 0 before the first chunk, and after a chunk
\* that is not the last the encryption of that chunk xor the feedback
\* before it.
RECURSIVE MacFeedbackBefore(_, _)
MacFeedbackBefore(buf, j) ==
    IF j = 0 THEN Zero64
    ELSE encrypt(self, Xor64(BlockAt(buf, j - 1),
                             MacFeedbackBefore(buf, j - 1)))

\* K1 for a message of whole blocks, K2 for any other.
MacSubkey(buf) ==
    IF Len(buf) % 8 = 0 THEN generate_cmac_subkeys(self)[1]
    ELSE generate_cmac_subkeys(self)[2]

\* C12: the tag of a message that is not empty is the high half of the
\* encryption of its last block xor the feedback xor the subkey, K1 for a
\* length that is a multiple of 8 and K2 otherwise, where the feedback
\* starts at 0 and each earlier chunk makes it encrypt(chunk xor feedback)
\* with no subkey.
C12_MacSubkeyLastOnly ==
    (ReturnedMac /\ Len(call.arg) > 0) =>
        output =
            to_be_bytes(u64_split(
                encrypt(self,
                    Xor64(Xor64(MacLastBlock(call.arg),
                                MacFeedbackBefore(call.arg,
                                                  LastChunk(call.arg))),
                          MacSubkey(call.arg))))[1])

\* The MAC of the four blocks of GOST R 34.13-2015 under the key of
\* RFC 8891: 0x154e7210.
C12_Witness ==
    /\ ReturnedMac
    /\ cipher_key = CIPHER_KEY_RFC8891
    /\ substitution_box = SUBSTITUTION_BOX_RFC7836
    /\ call.arg = PLAINTEXT_GOST_R3413_2015
    /\ output = <<21, 78, 114, 16>>

\* A byte with bit k (0 the most significant) changed.
FlipByte(byte, k) ==
    IF (byte \div (2 ^ (7 - k))) % 2 = 1 THEN byte - 2 ^ (7 - k)
    ELSE byte + 2 ^ (7 - k)

\* A message with bit p changed, bit 0 the most significant of byte 0.
FlipBit(buf, p) ==
    [buf EXCEPT ![(p \div 8) + 1] = FlipByte(buf[(p \div 8) + 1], p % 8)]

\* The 64-bit result of the last encrypt of cipher_mac, given the subkeys.
MacFinalWith(k, buf) == mac_loop(self, buf, mac_k_n(k, buf), <<0, Zero64>>)

\* No message that differs from buf in one bit has the tag of buf.
TagChanges(k, buf) ==
    \A p \in 0..(8 * Len(buf) - 1) :
        u64_split(MacFinalWith(k, FlipBit(buf, p)))[1]
            # u64_split(MacFinalWith(k, buf))[1]

\* No message that differs from buf in one bit has the last block of buf.
FinalChanges(k, buf) ==
    \A p \in 0..(8 * Len(buf) - 1) :
        MacFinalWith(k, FlipBit(buf, p)) # MacFinalWith(k, buf)

\* C13 as claimed: changing any one bit of a message, its length kept,
\* changes the tag cipher_mac returns.
C13_SingleBitChangesTag ==
    (ReturnedMac /\ Len(call.arg) <= MaxFlipLen) =>
        TagChanges(generate_cmac_subkeys(self), call.arg)

\* C13 as amended: changing any one bit of a message, its length kept,
\* changes the 64-bit result of the last encrypt of cipher_mac, of which
\* the tag is the high half.
C13_SingleBitChangesFinalBlock ==
    (ReturnedMac /\ Len(call.arg) <= MaxFlipLen) =>
        FinalChanges(generate_cmac_subkeys(self), call.arg)

\* The MAC of a message of one block was returned, and the message that
\* differs from it in bit 33 has the same tag and another last block.
C13_Witness ==
    /\ ReturnedMac
    /\ cipher_key = CIPHER_KEY_RFC8891
    /\ substitution_box = SUBSTITUTION_BOX_RFC7836
    /\ call.arg = MESSAGE_ONE_BLOCK
    /\ to_be_bytes(cipher_mac(self, FlipBit(call.arg, 33))) = output
    /\ MacFinalWith(generate_cmac_subkeys(self), FlipBit(call.arg, 33))
          # MacFinalWith(generate_cmac_subkeys(self), call.arg)

\* The four most significant bytes of a 64-bit value, the first the most
\* significant.
HighBytes(block) ==
    << 16 * block[16] + block[15], 16 * block[14] + block[13],
       16 * block[12] + block[11], 16 * block[10] + block[9] >>

\* The four least significant bytes of a 64-bit value.
LowBytes(block) ==
    << 16 * block[8] + block[7], 16 * block[6] + block[5],
       16 * block[4] + block[3], 16 * block[2] + block[1] >>

\* C14: cipher with MessageAuthentication and MAC returns 4 bytes for every
\* message: the most significant 32 bits of the 64-bit result of the last
\* encrypt, most significant byte first.
C14_TagIsHighHalf ==
    ReturnedMac =>
        /\ ~failed
        /\ Len(output) = 4
        /\ output =
              HighBytes(MacFinalWith(generate_cmac_subkeys(self), call.arg))

\* The MAC of 16 bytes was returned: the high half of the last block and
\* not its low half.
C14_Witness ==
    /\ ReturnedMac
    /\ cipher_key = CIPHER_KEY_RFC8891
    /\ Len(call.arg) = 16
    /\ Len(output) = 4
    /\ output # LowBytes(MacFinalWith(generate_cmac_subkeys(self), call.arg))

\* Chunk i (0-based) of a buffer, short when it is the last.
ChunkAt(buf, i) ==
    SubSeq(buf, 8 * i + 1, IF 8 * i + 8 <= Len(buf) THEN 8 * i + 8 ELSE Len(buf))

\* What chunk i of the input gives in CFB when ciphertext holds the
\* ciphertext blocks: the chunk, zeros after a short one, xor the encryption
\* of IV[i] for i < m and of ciphertext block i - m for i >= m, cut to the
\* length of the chunk.
CfbChunkOutput(input, ciphertext, i) ==
    SubSeq(to_be_bytes(
               Xor64(encrypt(self, CfbRegisterAt(i, ciphertext)),
                     from_be_bytes(ChunkAt(input, i)
                                     \o Zeros(8 - Len(ChunkAt(input, i)))))),
           1, Len(ChunkAt(input, i)))

\* Every chunk of the output is what the FIFO register gives for it.
CfbFifo(input, ciphertext) ==
    \A i \in 0..(((Len(input) + 7) \div 8) - 1) :
        ChunkAt(output, i) = CfbChunkOutput(input, ciphertext, i)

\* C15: in CFB with an IV of m blocks chunk i is xored with encrypt(IV[i])
\* for i < m and with encrypt(C[i - m]) for i >= m, where C is the output
\* under encrypt and the input under decrypt.
C15_CfbRegisterIsFifo ==
    /\ (Returned("cfb_encrypt") /\ Len(iv) > 0) =>
          ~failed /\ CfbFifo(call.arg, output)
    /\ (Returned("cfb_decrypt") /\ Len(iv) > 0) =>
          ~failed /\ CfbFifo(call.arg, call.arg)

\* CFB decrypt of four blocks returned under an IV of two blocks: the last
\* block is the input block xor the encryption of input block 1, and is
\* not xored with the encryption of input block 2.
C15_Witness ==
    /\ Returned("cfb_decrypt")
    /\ Len(iv) = 2
    /\ Len(call.arg) = 32
    /\ ~failed
    /\ BytesFrom(output, 25) =
          to_be_bytes(Xor64(encrypt(self, BlockAt(call.arg, 1)),
                            BlockAt(call.arg, 3)))
    /\ BytesFrom(output, 25) #
          to_be_bytes(Xor64(encrypt(self, BlockAt(call.arg, 2)),
                            BlockAt(call.arg, 3)))

\* x + 1 on 64 bits, from digit j on: a full digit becomes 0 and carries,
\* and a carry out of the last digit is dropped.
RECURSIVE IncrementFrom(_, _)
IncrementFrom(x, j) ==
    IF j > 16 THEN x
    ELSE IF x[j] = 15 THEN IncrementFrom([x EXCEPT ![j] = 0], j + 1)
    ELSE [x EXCEPT ![j] = x[j] + 1]

\* (seed + i) mod 2^64, by i increments.
RECURSIVE CounterAt(_, _)
CounterAt(seed, i) ==
    IF i = 0 THEN seed ELSE IncrementFrom(CounterAt(seed, i - 1), 1)

\* What chunk i gives in CTR: the chunk, zeros after a short one, xor the
\* encryption of the counter, cut to the length of the chunk.
CtrChunkOutput(seed, buf, i) ==
    SubSeq(to_be_bytes(
               Xor64(encrypt(self, CounterAt(seed, i)),
                     from_be_bytes(ChunkAt(buf, i)
                                     \o Zeros(8 - Len(ChunkAt(buf, i)))))),
           1, Len(ChunkAt(buf, i)))

\* C16: the loop of CTR does not fail, and chunk i of its output is chunk i
\* of the input xor encrypt((seed + i) mod 2^64), whatever the other chunks
\* are and also when seed + i passes 2^64 - 1.
C16_CtrCounterWraps ==
    Returned("cipher_ctr") =>
        /\ ~failed
        /\ \A i \in 0..(((Len(call.arg) + 7) \div 8) - 1) :
              ChunkAt(output, i) = CtrChunkOutput(call.mode, call.arg, i)

\* The loop returned for three chunks from the seed 2^64 - 1: the second
\* chunk met encrypt(0) and the third encrypt(1).
C16_Witness ==
    /\ Returned("cipher_ctr")
    /\ call.mode = Hex(<<15, 15, 15, 15, 15, 15, 15, 15,
                         15, 15, 15, 15, 15, 15, 15, 15>>)
    /\ Len(call.arg) = 24
    /\ ~failed
    /\ ChunkAt(output, 1) =
          to_be_bytes(Xor64(encrypt(self, Zero64), BlockAt(call.arg, 1)))
    /\ ChunkAt(output, 2) =
          to_be_bytes(Xor64(encrypt(self, DigitsOf(1, 16)),
                            BlockAt(call.arg, 2)))

\* Bit n of a 64-bit word, n = 0 the least significant.
BitOf(x, n) == (x[(n \div 4) + 1] \div (2 ^ (n % 4))) % 2

\* Bit n of dbl(x): bit n - 1 of x, xor bit n of 0x1B when bit 63 of x is 1.
DblBit(x, n) ==
    ((IF n = 0 THEN 0 ELSE BitOf(x, n - 1))
       + (IF BitOf(x, 63) = 1 /\ n \in {0, 1, 3, 4} THEN 1 ELSE 0)) % 2

RECURSIVE DblFrom(_, _)
DblFrom(x, j) ==
    IF j > 16 THEN <<>>
    ELSE <<DblBit(x, 4 * (j - 1)) + 2 * DblBit(x, 4 * (j - 1) + 1)
             + 4 * DblBit(x, 4 * (j - 1) + 2)
             + 8 * DblBit(x, 4 * (j - 1) + 3)>> \o DblFrom(x, j + 1)

Dbl(x) == DblFrom(x, 1)

\* K1 and K2 as the claim derives them from R.
DblSubkeys(r) == <<Dbl(r), Dbl(Dbl(r))>>

\* C17: for every engine the subkeys of the MAC are K1 = dbl(R) and
\* K2 = dbl(K1) with R = encrypt(0), where dbl shifts left by one bit on 64
\* bits and xors 0x1B when bit 63 of its own argument was 1.
C17_CmacSubkeys ==
    generate_cmac_subkeys(self) = DblSubkeys(encrypt(self, Zero64))

\* A MAC returned for a message that ends in a short chunk, on an engine
\* where bit 63 of R is 0 and bit 63 of K1 is 1; the tag is the one K2 =
\* dbl(K1) gives.
C17_Witness ==
    /\ ReturnedMac
    /\ ~failed
    /\ Len(call.arg) % 8 # 0
    /\ BitOf(encrypt(self, Zero64), 63) = 0
    /\ BitOf(Dbl(encrypt(self, Zero64)), 63) = 1
    /\ output = HighBytes(MacFinalWith(DblSubkeys(encrypt(self, Zero64)),
                                       call.arg))

\* The message as the claim pads it: a last chunk of L < 8 bytes gets 0x80
\* at byte L and 0x00 at bytes L + 1 .. 7; nothing else is touched.
MacPadded(buf) ==
    IF Len(buf) % 8 = 0 THEN buf
    ELSE buf \o <<128>> \o Zeros(7 - (Len(buf) % 8))

\* The tag of a message p of whole blocks under the subkey k: the last
\* block xor the feedback xor k, encrypted, high half.
MacTagOfBlocks(p, k) ==
    HighBytes(encrypt(self,
        Xor64(Xor64(BlockAt(p, LastChunk(p)),
                    MacFeedbackBefore(p, LastChunk(p))),
              k)))

\* C18: the tag of a message that is not empty is the tag of its blocks
\* after padding only a short last chunk with 0x80 and zeros, a last chunk
\* of 8 bytes and every earlier chunk taken as they are, the last block
\* xored with the feedback and with the subkey of the unpadded length.
C18_MacPadding ==
    (ReturnedMac /\ Len(call.arg) > 0) =>
        /\ ~failed
        /\ output = MacTagOfBlocks(MacPadded(call.arg), MacSubkey(call.arg))

\* A MAC returned for 11 bytes: the second block is bytes 8..10, 0x80 and
\* four zero bytes, xored with encrypt(bytes 0..7) and K2.
C18_Witness ==
    /\ ReturnedMac
    /\ Len(call.arg) = 11
    /\ ~failed
    /\ output =
          HighBytes(encrypt(self,
              Xor64(Xor64(from_be_bytes(SubSeq(call.arg, 9, 11)
                                          \o <<128, 0, 0, 0, 0>>),
                          encrypt(self, BlockAt(call.arg, 0))),
                    generate_cmac_subkeys(self)[2])))

\* Bits 63..32 and bits 31..0 of a 64-bit value.
HighWord(block) == SubSeq(block, 9, 16)
LowWord(block) == SubSeq(block, 1, 8)

\* One round of the claim on the pair <<a1, a0>> with round key number r.
RoundOf(r, pair) ==
    <<pair[2], Xor32(transformation_g(self, round_keys[r + 1], pair[2]),
                     pair[1])>>

\* The pair after the rounds r, r + 1, .., 31.
RECURSIVE RoundsAscending(_, _)
RoundsAscending(r, pair) ==
    IF r > 31 THEN pair ELSE RoundsAscending(r + 1, RoundOf(r, pair))

\* The pair after the rounds r, r - 1, .., 0.
RECURSIVE RoundsDescending(_, _)
RoundsDescending(r, pair) ==
    IF r < 0 THEN pair ELSE RoundsDescending(r - 1, RoundOf(r, pair))

\* The block has the second component of the pair as its high 32 bits and
\* the first as its low 32 bits.
JoinsFinal(block, pair) ==
    HighWord(block) = pair[2] /\ LowWord(block) = pair[1]

\* C19: the block encrypt returns has as high half the final a0 and as low
\* half the final a1 of the 32 rounds (a1, a0) := (a0, G(round_keys[r], a0)
\* xor a1) taken for r = 0..31 from the halves of the input, a1 the high
\* one; decrypt returns the same with r = 31 down to 0.
C19_RoundStructure ==
    /\ Returned("encrypt") =>
          JoinsFinal(output,
                     RoundsAscending(0, <<HighWord(call.arg),
                                          LowWord(call.arg)>>))
    /\ Returned("decrypt") =>
          JoinsFinal(output,
                     RoundsDescending(31, <<HighWord(call.arg),
                                            LowWord(call.arg)>>))

\* encrypt returned for the plaintext of RFC 8891 under its key: the first
\* round gives (76543210, 28da3b14) and the block returned is 4ee901e5c2d8ca3d.
C19_Witness ==
    /\ Returned("encrypt")
    /\ substitution_box = SUBSTITUTION_BOX_RFC7836
    /\ cipher_key = CIPHER_KEY_RFC8891
    /\ call.arg = PLAINTEXT_RFC8891
    /\ RoundOf(0, <<HighWord(call.arg), LowWord(call.arg)>>) =
          <<Hex(<<7, 6, 5, 4, 3, 2, 1, 0>>), Hex(<<2, 8, 13, 10, 3, 11, 1, 4>>)>>
    /\ output = Hex(<<4, 14, 14, 9, 0, 1, 14, 5, 12, 2, 13, 8, 12, 10, 3, 13>>)

\* C20: for every key and substitution box the MAC of the empty message is
\* the tag 0: no chunk is chained, and the final block is 0 whatever the
\* subkeys are.
C20_EmptyMessageTag ==
    (ReturnedMac /\ Len(call.arg) = 0) =>
        /\ ~failed
        /\ output = <<0, 0, 0, 0>>
        /\ MacFinalWith(generate_cmac_subkeys(self), call.arg) = Zero64
        /\ MacFinalWith(<<Zero64, Zero64>>, call.arg) = Zero64

\* The MAC of the empty message returned as 0 under the key of RFC 8891,
\* whose subkeys are not 0.
C20_Witness ==
    /\ ReturnedMac
    /\ Len(call.arg) = 0
    /\ cipher_key = CIPHER_KEY_RFC8891
    /\ generate_cmac_subkeys(self)[1] # Zero64
    /\ generate_cmac_subkeys(self)[2] # Zero64
    /\ ~failed
    /\ output = <<0, 0, 0, 0>>

\* A CFB call is inside its loop, before a chunk or after the last one.
InCfbLoop == pending /\ Len(output) = 3

\* C21: whenever CFB encrypt or decrypt is about to process a chunk, the
\* register holds as many blocks as the IV, which is not empty, and a call
\* on an engine whose IV is not empty does not fail, whatever the length
\* of the buffer.
C21_CfbRegisterSize ==
    /\ InCfbLoop => (Len(output[2]) = Len(iv) /\ Len(iv) > 0)
    /\ Len(iv) > 0 => ~failed

\* CFB decrypt of a buffer of more than three chunks under an IV of two
\* blocks has processed three chunks: the register holds two blocks, the
\* second and third chunks of the input.
C21_Witness ==
    /\ InCfbLoop
    /\ call.op = "cfb_decrypt"
    /\ Len(iv) = 2
    /\ Len(call.arg) > 24
    /\ output[1] = 3
    /\ output[2] = <<BlockAt(call.arg, 1), BlockAt(call.arg, 2)>>

\* Row i (0..7) of the box is a permutation of 0..15.
RowIsPermutation(sbox, i) ==
    {sbox[16 * i + v + 1] : v \in 0..15} = 0..15

\* C22: whatever set_substitution_box installed, rows that are not
\* permutations of 0..15 included, and whatever the key, the block encrypt
\* returned decrypts on the same engine to the block encrypt was given.
C22_RoundTripAnyBox ==
    Returned("encrypt") => decrypt(self, output) = call.arg

\* encrypt returned under a box no row of which is a permutation, and the
\* block it returned is not the block it was given.
C22_Witness ==
    /\ Returned("encrypt")
    /\ \A i \in 0..7 : ~RowIsPermutation(substitution_box, i)
    /\ cipher_key = CIPHER_KEY_RFC8891
    /\ call.arg = PLAINTEXT_RFC8891
    /\ output # call.arg
    /\ decrypt(self, output) = call.arg

====
